---- MODULE Spec2Model ----
(***************************************************************************)
(* Packet filter policy engine of the relayer (relayer/src/config/filter.rs) *)
(* Strings are sequences of one-character strings.  A Wildcard value is the  *)
(* source text of the regex it wraps (regex::Regex renders as its source).   *)
(***************************************************************************)
EXTENDS Naturals, Sequences, FiniteSets

VARIABLES
    pattern,    \* pattern workbench: the pattern string under test
    compiled,   \* Result of Wildcard::from_str(pattern)
    rendered,   \* Option: Display of the compiled Wildcard
    recompiled, \* Option: Result of Wildcard::from_str(rendered)
    parsed,     \* Option: results of the port and channel visitors on pattern
    probe,      \* Option: last is_match call on compiled, text and result
    input,      \* filter engine: the configuration record last loaded
    result,     \* Result<PacketFilter> of the last load (or the default value)
    wire,       \* Option: the serialized form of the loaded filter
    reloaded,   \* Option: Result<PacketFilter> of deserializing wire
    answer,     \* Option: last is_allowed call, its arguments and result
    exact       \* Option: last is_exact / iter_exact observation

patVars == <<pattern, compiled, rendered, recompiled, parsed, probe>>
engVars == <<input, result, wire, reloaded, answer, exact>>
vars == <<pattern, compiled, rendered, recompiled, parsed, probe,
          input, result, wire, reloaded, answer, exact>>

-----------------------------------------------------------------------------
(* Bounds of the model *)

\* longest pattern / candidate string of the pattern workbench
MaxLen == 3
\* most pairs in a configured filter list
MaxPairs == 2
\* longest identifier probed against a filter list
MaxIdLen == 2
\* scaled-down stand-in for the size limit of the regex compiler: a regex
\* whose source is longer does not compile
RegexSizeLimit == 16

\* characters of the strings the workbench enumerates
Alphabet == {"a", "-", "*"}
\* characters of the identifiers probed against a filter list
IdAlphabet == {"a", "-"}

RECURSIVE StringsOfLen(_, _)
StringsOfLen(A, n) ==
    IF n = 0 THEN {<<>>}
    ELSE {<<c>> \o s : c \in A, s \in StringsOfLen(A, n - 1)}

StringsUpTo(A, n) == UNION {StringsOfLen(A, k) : k \in 0..n}

None == [some |-> FALSE]
Some(x) == [some |-> TRUE, val |-> x]
Ok(x) == [ok |-> TRUE, val |-> x]
Err(e) == [ok |-> FALSE, err |-> e]

-----------------------------------------------------------------------------
(* regex crate operations used by Wildcard *)

\* regex_syntax::is_meta_character
MetaChars == {"\\", ".", "+", "*", "?", "(", ")", "|", "[", "]", "{", "}",
              "^", "$", "#", "&", "-", "~"}

\* regex::escape: a backslash before every meta character
RECURSIVE escape(_)
escape(s) ==
    IF s = <<>> THEN <<>>
    ELSE (IF Head(s) \in MetaChars THEN <<"\\", Head(s)>> ELSE <<Head(s)>>)
         \o escape(Tail(s))

StartsWith(s, p) == Len(s) >= Len(p) /\ SubSeq(s, 1, Len(p)) = p

\* str::replace: every non-overlapping occurrence, left to right
RECURSIVE replace(_, _, _)
replace(s, from, to) ==
    IF s = <<>> THEN <<>>
    ELSE IF StartsWith(s, from)
         THEN to \o replace(SubSeq(s, Len(from) + 1, Len(s)), from, to)
         ELSE <<Head(s)>> \o replace(Tail(s), from, to)

EscapedStar == <<"\\", "*">>
AnyGroup == <<"(", "?", ":", ".", "*", ")">>

\* the regex parser on the sources Wildcard produces: a non-capturing group
\* of .* , an escaped character, or a plain character
RECURSIVE Tokens(_)
Tokens(re) ==
    IF re = <<>> THEN <<>>
    ELSE IF StartsWith(re, AnyGroup)
         THEN <<[any |-> TRUE, ch |-> ""]>>
              \o Tokens(SubSeq(re, Len(AnyGroup) + 1, Len(re)))
    ELSE IF Head(re) = "\\" /\ Len(re) >= 2
         THEN <<[any |-> FALSE, ch |-> re[2]]>> \o Tokens(SubSeq(re, 3, Len(re)))
    ELSE <<[any |-> FALSE, ch |-> Head(re)]>> \o Tokens(Tail(re))

\* the token sequence matches the whole of text
RECURSIVE MatchesWhole(_, _)
MatchesWhole(toks, text) ==
    IF toks = <<>> THEN text = <<>>
    ELSE IF Head(toks).any
         THEN \E k \in 0..Len(text) :
                 MatchesWhole(Tail(toks), SubSeq(text, k + 1, Len(text)))
    ELSE /\ text # <<>>
         /\ Head(text) = Head(toks).ch
         /\ MatchesWhole(Tail(toks), Tail(text))

\* Regex::is_match: an unanchored search, true when some substring of text
\* matches the regex
Regex_is_match(re, text) ==
    \E i \in 1..(Len(text) + 1) : \E j \in (i - 1)..Len(text) :
        MatchesWhole(Tokens(re), SubSeq(text, i, j))

\* str::parse::<Regex>: the source compiles unless the program is too big
Regex_parse(src) ==
    IF Len(src) > RegexSizeLimit THEN Err("CompiledTooBig") ELSE Ok(src)

-----------------------------------------------------------------------------
(* Wildcard *)

Wildcard_from_str(s) == Regex_parse(replace(escape(s), EscapedStar, AnyGroup))

Wildcard_is_match(w, text) == Regex_is_match(w, text)

Wildcard_fmt(w) == replace(w, AnyGroup, <<"*">>)

-----------------------------------------------------------------------------
(* Identifiers (ibc::core::ics24_host::identifier) *)

\* characters the identifier grammar admits; it excludes the star
IdentifierChars == {"a", "b", "0", "-"}

ValidIdentifier(s) == s # <<>> /\ \A i \in 1..Len(s) : s[i] \in IdentifierChars

\* PortId::from_str and ChannelId::from_str: the validated string, or an error
PortId_from_str(s) == IF ValidIdentifier(s) THEN Ok(s) ELSE Err("InvalidId")

ChannelId_from_str(s) == IF ValidIdentifier(s) THEN Ok(s) ELSE Err("InvalidId")

\* AsRef<str> of an identifier: the string it wraps
as_ref(id) == id

-----------------------------------------------------------------------------
(* FilterPattern<T> *)

Exact(v) == [kind |-> "Exact", v |-> v]
WildcardPattern(w) == [kind |-> "Wildcard", v |-> w]

FilterPattern_is_exact(fp) == fp.kind = "Exact"

FilterPattern_matches(fp, value) ==
    IF fp.kind = "Exact" THEN value = fp.v
    ELSE Wildcard_is_match(fp.v, as_ref(value))

FilterPattern_serialize(fp) ==
    IF fp.kind = "Exact" THEN as_ref(fp.v) ELSE Wildcard_fmt(fp.v)

\* a visitor that tries the wildcard before the identifier
Mut_visit_str_wildcard_first(v) ==
    IF Wildcard_from_str(v).ok THEN Ok(WildcardPattern(Wildcard_from_str(v).val))
    ELSE IF PortId_from_str(v).ok THEN Ok(Exact(PortId_from_str(v).val))
    ELSE Err("custom")

\* port::PortFilterMatchVisitor::visit_str
Port_visit_str(v) ==
    IF PortId_from_str(v).ok THEN Ok(Exact(PortId_from_str(v).val))
    ELSE IF Wildcard_from_str(v).ok
         THEN Ok(WildcardPattern(Wildcard_from_str(v).val))
    ELSE Err("custom")

\* channel::ChannelFilterMatchVisitor::visit_str
Channel_visit_str(v) ==
    IF ChannelId_from_str(v).ok THEN Ok(Exact(ChannelId_from_str(v).val))
    ELSE IF Wildcard_from_str(v).ok
         THEN Ok(WildcardPattern(Wildcard_from_str(v).val))
    ELSE Err("custom")

-----------------------------------------------------------------------------
(* ChannelFilters: a sequence of <<port pattern, channel pattern>> pairs *)

\* a match that looks at the first pair alone
Mut_matches_first_pair(list, port_id, channel_id) ==
    /\ list # <<>>
    /\ FilterPattern_matches(Head(list)[1], port_id)
    /\ FilterPattern_matches(Head(list)[2], channel_id)

RECURSIVE ChannelFilters_matches(_, _, _)
ChannelFilters_matches(list, port_id, channel_id) ==
    IF list = <<>> THEN FALSE
    ELSE \/ /\ FilterPattern_matches(Head(list)[1], port_id)
            /\ FilterPattern_matches(Head(list)[2], channel_id)
         \/ ChannelFilters_matches(Tail(list), port_id, channel_id)

\* an exactness test that looks at the port patterns alone
RECURSIVE Mut_is_exact_port_only(_)
Mut_is_exact_port_only(list) ==
    IF list = <<>> THEN TRUE
    ELSE /\ FilterPattern_is_exact(Head(list)[1])
         /\ Mut_is_exact_port_only(Tail(list))

RECURSIVE ChannelFilters_is_exact(_)
ChannelFilters_is_exact(list) ==
    IF list = <<>> THEN TRUE
    ELSE /\ FilterPattern_is_exact(Head(list)[1])
         /\ FilterPattern_is_exact(Head(list)[2])
         /\ ChannelFilters_is_exact(Tail(list))

RECURSIVE ChannelFilters_iter_exact(_)
ChannelFilters_iter_exact(list) ==
    IF list = <<>> THEN <<>>
    ELSE (IF Head(list)[1].kind = "Exact" /\ Head(list)[2].kind = "Exact"
          THEN << <<Head(list)[1].v, Head(list)[2].v>> >>
          ELSE <<>>)
         \o ChannelFilters_iter_exact(Tail(list))

\* impl Serialize for ChannelFilters: a sequence of 2-element sequences
RECURSIVE ChannelFilters_serialize(_)
ChannelFilters_serialize(list) ==
    IF list = <<>> THEN <<>>
    ELSE << <<FilterPattern_serialize(Head(list)[1]),
              FilterPattern_serialize(Head(list)[2])>> >>
         \o ChannelFilters_serialize(Tail(list))

\* a list parser that drops the pairs it cannot parse
RECURSIVE Mut_deserialize_skip_malformed(_)
Mut_deserialize_skip_malformed(raw) ==
    IF raw = <<>> THEN Ok(<<>>)
    ELSE IF ~Port_visit_str(Head(raw)[1]).ok \/ ~Channel_visit_str(Head(raw)[2]).ok
         THEN Mut_deserialize_skip_malformed(Tail(raw))
    ELSE Ok(<< <<Port_visit_str(Head(raw)[1]).val,
                 Channel_visit_str(Head(raw)[2]).val>> >>
            \o Mut_deserialize_skip_malformed(Tail(raw)).val)

\* derived Deserialize of Vec<(PortFilterMatch, ChannelFilterMatch)>: element
\* by element, the first error ends the whole parse
RECURSIVE ChannelFilters_deserialize(_)
ChannelFilters_deserialize(raw) ==
    IF raw = <<>> THEN Ok(<<>>)
    ELSE IF ~Port_visit_str(Head(raw)[1]).ok THEN Err("custom")
    ELSE IF ~Channel_visit_str(Head(raw)[2]).ok THEN Err("custom")
    ELSE IF ~ChannelFilters_deserialize(Tail(raw)).ok THEN Err("custom")
    ELSE Ok(<< <<Port_visit_str(Head(raw)[1]).val,
                 Channel_visit_str(Head(raw)[2]).val>> >>
            \o ChannelFilters_deserialize(Tail(raw)).val)

-----------------------------------------------------------------------------
(* PacketFilter *)

Allow(list) == [tag |-> "Allow", list |-> list]
Deny(list) == [tag |-> "Deny", list |-> list]
AllowAll == [tag |-> "AllowAll", list |-> <<>>]

\* a default that allows nothing
Mut_default_empty_allow == Allow(<<>>)

PacketFilter_default == AllowAll

\* a decision whose Deny arm is not negated
Mut_is_allowed_deny_unnegated(f, port_id, channel_id) ==
    IF f.tag = "AllowAll" THEN TRUE
    ELSE ChannelFilters_matches(f.list, port_id, channel_id)

PacketFilter_is_allowed(f, port_id, channel_id) ==
    IF f.tag = "Allow" THEN ChannelFilters_matches(f.list, port_id, channel_id)
    ELSE IF f.tag = "Deny"
         THEN ~ChannelFilters_matches(f.list, port_id, channel_id)
    ELSE TRUE

\* A policy record: the policy tag, the list content (absent, here <<>>, for
\* allowall) and whether the record carries a key other than policy and list.
Record(policy, list, unknown) ==
    [policy |-> policy, list |-> list, unknown |-> unknown]

\* derived Serialize: tag = "policy", content = "list", lowercase variant names
PacketFilter_serialize(f) ==
    IF f.tag = "Allow" THEN Record("allow", ChannelFilters_serialize(f.list), FALSE)
    ELSE IF f.tag = "Deny"
         THEN Record("deny", ChannelFilters_serialize(f.list), FALSE)
    ELSE Record("allowall", <<>>, FALSE)

\* derived Deserialize with deny_unknown_fields
PacketFilter_deserialize(rec) ==
    IF rec.unknown THEN Err("unknown field")
    ELSE IF rec.policy = "allowall" THEN Ok(AllowAll)
    ELSE IF ~ChannelFilters_deserialize(rec.list).ok THEN Err("custom")
    ELSE IF rec.policy = "allow"
         THEN Ok(Allow(ChannelFilters_deserialize(rec.list).val))
    ELSE Ok(Deny(ChannelFilters_deserialize(rec.list).val))

-----------------------------------------------------------------------------
(* Inputs *)

\* pattern and candidate strings of the pattern workbench
Strings == StringsUpTo(Alphabet, MaxLen)

\* identifiers probed against a filter
Identifiers == StringsUpTo(IdAlphabet, MaxIdLen) \ {<<>>}

\* pattern strings a configured list is written with: an exact identifier,
\* a wildcard, a wildcard with a regex meta character, and a pattern too
\* long to compile
PortPatterns == {<<"a">>, <<"a", "*">>, <<"-", "*">>, <<"*", "*", "*">>}
ChannelPatterns == {<<"a", "-">>, <<"*">>, <<"*", "*", "*">>}

RawPairs == PortPatterns \X ChannelPatterns

RECURSIVE ListsOfLen(_)
ListsOfLen(n) ==
    IF n = 0 THEN {<<>>}
    ELSE {<<pr>> \o l : pr \in RawPairs, l \in ListsOfLen(n - 1)}

RawLists == UNION {ListsOfLen(k) : k \in 0..MaxPairs}

ConfigRecords ==
    {Record(pol, l, u) : pol \in {"allow", "deny"}, l \in RawLists, u \in BOOLEAN}
    \cup {Record("allowall", <<>>, u) : u \in BOOLEAN}

-----------------------------------------------------------------------------
(* The filter engine: a filter is loaded, queried, serialized and reloaded *)

EngineInit ==
    /\ input = None
    /\ result = Ok(PacketFilter_default)
    /\ wire = None
    /\ reloaded = None
    /\ answer = None
    /\ exact = None

WorkbenchIdle ==
    /\ pattern = <<>>
    /\ compiled = None
    /\ rendered = None
    /\ recompiled = None
    /\ parsed = None
    /\ probe = None

Init == EngineInit /\ WorkbenchIdle

\* the configuration is loaded, once, before the filter is used: the record
\* is deserialized into a PacketFilter
LoadConfig(rec) ==
    /\ EngineInit
    /\ input' = Some(rec)
    /\ result' = PacketFilter_deserialize(rec)
    /\ wire' = None
    /\ reloaded' = None
    /\ answer' = None
    /\ exact' = None
    /\ UNCHANGED patVars

\* the value is discarded (shutdown, or a reload of the configuration): the
\* engine is back to the default value
Discard ==
    /\ ~EngineInit
    /\ input' = None
    /\ result' = Ok(PacketFilter_default)
    /\ wire' = None
    /\ reloaded' = None
    /\ answer' = None
    /\ exact' = None
    /\ UNCHANGED patVars

IsAllowed(port_id, channel_id) ==
    /\ result.ok
    /\ ~answer.some
    /\ answer' = Some([port |-> port_id, channel |-> channel_id,
                       allowed |-> PacketFilter_is_allowed(result.val, port_id,
                                                           channel_id)])
    /\ UNCHANGED <<input, result, wire, reloaded, exact>>
    /\ UNCHANGED patVars

\* is_exact and iter_exact on the list of the loaded filter
ScanExact ==
    /\ result.ok
    /\ result.val.tag # "AllowAll"
    /\ exact' = Some([is_exact |-> ChannelFilters_is_exact(result.val.list),
                      pairs |-> ChannelFilters_iter_exact(result.val.list)])
    /\ UNCHANGED <<input, result, wire, reloaded, answer>>
    /\ UNCHANGED patVars

Serialize ==
    /\ result.ok
    /\ ~wire.some
    /\ wire' = Some(PacketFilter_serialize(result.val))
    /\ UNCHANGED <<input, result, reloaded, answer, exact>>
    /\ UNCHANGED patVars

\* the serialized form is deserialized again
Reload ==
    /\ wire.some
    /\ ~reloaded.some
    /\ reloaded' = Some(PacketFilter_deserialize(wire.val))
    /\ UNCHANGED <<input, result, wire, answer, exact>>
    /\ UNCHANGED patVars

\* the configuration loader, with any record
Load == EngineInit /\ \E rec \in ConfigRecords : LoadConfig(rec)

\* a relay path asks about any channel
Query == ~answer.some /\ \E p \in Identifiers, c \in Identifiers : IsAllowed(p, c)

Next ==
    \/ Load
    \/ Discard
    \/ Query
    \/ ScanExact

Spec == Init /\ [][Next]_vars

\* the configuration codec: a loaded filter is written out and read back
NextCodec ==
    \/ Load
    \/ Discard
    \/ Serialize
    \/ Reload

SpecCodec == Init /\ [][NextCodec]_vars

-----------------------------------------------------------------------------
(* The pattern workbench: one pattern string is compiled, matched, rendered, *)
(* compiled again and parsed as a port and as a channel pattern              *)

InitPattern ==
    /\ EngineInit
    /\ pattern \in Strings
    /\ compiled = None
    /\ rendered = None
    /\ recompiled = None
    /\ parsed = None
    /\ probe = None

Compile ==
    /\ ~compiled.some
    /\ compiled' = Some(Wildcard_from_str(pattern))
    /\ UNCHANGED <<pattern, rendered, recompiled, parsed, probe>>
    /\ UNCHANGED engVars

IsMatch(text) ==
    /\ ~probe.some
    /\ compiled.some
    /\ compiled.val.ok
    /\ probe' = Some([text |-> text,
                      matched |-> Wildcard_is_match(compiled.val.val, text)])
    /\ UNCHANGED <<pattern, compiled, rendered, recompiled, parsed>>
    /\ UNCHANGED engVars

Render ==
    /\ compiled.some
    /\ compiled.val.ok
    /\ ~rendered.some
    /\ rendered' = Some(Wildcard_fmt(compiled.val.val))
    /\ UNCHANGED <<pattern, compiled, recompiled, parsed, probe>>
    /\ UNCHANGED engVars

Recompile ==
    /\ rendered.some
    /\ ~recompiled.some
    /\ recompiled' = Some(Wildcard_from_str(rendered.val))
    /\ UNCHANGED <<pattern, compiled, rendered, parsed, probe>>
    /\ UNCHANGED engVars

ParsePattern ==
    /\ ~parsed.some
    /\ parsed' = Some([port |-> Port_visit_str(pattern),
                       channel |-> Channel_visit_str(pattern)])
    /\ UNCHANGED <<pattern, compiled, rendered, recompiled, probe>>
    /\ UNCHANGED engVars

\* the compiled pattern is tried on any candidate string
Probe == ~probe.some /\ \E text \in Strings : IsMatch(text)

NextPattern ==
    \/ Compile
    \/ Probe
    \/ Render
    \/ Recompile
    \/ ParsePattern

SpecPattern == InitPattern /\ [][NextPattern]_vars

-----------------------------------------------------------------------------
(* Properties *)

\* glob matching of a whole string: each star stands for any string
RECURSIVE GlobMatch(_, _)
GlobMatch(s, t) ==
    IF s = <<>> THEN t = <<>>
    ELSE IF Head(s) = "*"
         THEN \E k \in 0..Len(t) : GlobMatch(Tail(s), SubSeq(t, k + 1, Len(t)))
    ELSE t # <<>> /\ Head(t) = Head(s) /\ GlobMatch(Tail(s), Tail(t))

\* C1: is_match of the Wildcard compiled from pattern is true of a text iff
\* the text as a whole is the pattern with each star replaced by some string.
C1_AnchoredMatch ==
    probe.some =>
        probe.val.matched = GlobMatch(pattern, probe.val.text)

\* C2: the default PacketFilter is AllowAll and allows every port and channel.
C2_DefaultAllowsAll ==
    ~input.some =>
        /\ result.ok
        /\ result.val.tag = "AllowAll"
        /\ answer.some => answer.val.allowed = TRUE

C2_Witness == ~input.some /\ answer.some /\ answer.val.allowed

\* what the exact-first rule gives for pattern, with the identifier parser idp
ExactFirst(r, idp) ==
    /\ (r.ok /\ r.val.kind = "Exact") <=> idp.ok
    /\ idp.ok => r.val.v = idp.val
    /\ (r.ok /\ r.val.kind = "Wildcard")
          <=> (~idp.ok /\ Wildcard_from_str(pattern).ok)
    /\ (r.ok /\ r.val.kind = "Wildcard")
          => r.val.v = Wildcard_from_str(pattern).val
    /\ ~r.ok <=> (~idp.ok /\ ~Wildcard_from_str(pattern).ok)

\* C3: a pattern string parses to Exact(id) iff it is a valid identifier, to
\* Wildcard only when it is not and compiles, to an error iff both fail; for
\* the port and the channel parser alike.
C3_ExactFirst ==
    parsed.some =>
        /\ ExactFirst(parsed.val.port, PortId_from_str(pattern))
        /\ ExactFirst(parsed.val.channel, ChannelId_from_str(pattern))

C3_Witness ==
    /\ parsed.some
    /\ parsed.val.port.ok
    /\ parsed.val.port.val.kind = "Wildcard"
    /\ parsed.val.channel.ok
    /\ parsed.val.channel.val.kind = "Wildcard"

\* a pattern accepts an identifier: Exact by equality, Wildcard by is_match
Accepts(fp, id) ==
    \/ fp.kind = "Exact" /\ id = fp.v
    \/ fp.kind = "Wildcard" /\ Wildcard_is_match(fp.v, id)

SomePairAccepts(list, p, c) ==
    \E i \in 1..Len(list) : Accepts(list[i][1], p) /\ Accepts(list[i][2], c)

IndexOrders(n) ==
    {f \in [1..n -> 1..n] : \A i, j \in 1..n : f[i] = f[j] => i = j}

Reordered(list, f) == [i \in 1..Len(list) |-> list[f[i]]]

\* C4: matches is true iff some pair of the list accepts the port and the
\* channel; the empty list matches nothing and the order of the pairs does
\* not matter.
C4_MatchesIsAnyPair ==
    (answer.some /\ result.val.tag = "Allow") =>
        LET list == result.val.list
            p == answer.val.port
            c == answer.val.channel
        IN /\ answer.val.allowed = SomePairAccepts(list, p, c)
           /\ list = <<>> => ~answer.val.allowed
           /\ \A f \in IndexOrders(Len(list)) :
                 ChannelFilters_matches(Reordered(list, f), p, c)
                    = answer.val.allowed

C4_Witness ==
    /\ answer.some
    /\ result.val.tag = "Allow"
    /\ Len(result.val.list) = 2
    /\ answer.val.allowed
    /\ ~(/\ Accepts(result.val.list[1][1], answer.val.port)
         /\ Accepts(result.val.list[1][2], answer.val.channel))

\* C5: Deny(L).is_allowed(p, c) is the negation of Allow(L).is_allowed(p, c),
\* which is L.matches(p, c).
C5_Complement ==
    (answer.some /\ result.val.tag # "AllowAll") =>
        LET list == result.val.list
            p == answer.val.port
            c == answer.val.channel
        IN /\ PacketFilter_is_allowed(Deny(list), p, c)
                = ~PacketFilter_is_allowed(Allow(list), p, c)
           /\ PacketFilter_is_allowed(Allow(list), p, c)
                = ChannelFilters_matches(list, p, c)
           /\ result.val.tag = "Deny"
                => answer.val.allowed = ~PacketFilter_is_allowed(Allow(list), p, c)
           /\ result.val.tag = "Allow"
                => answer.val.allowed = ~PacketFilter_is_allowed(Deny(list), p, c)

C5_Witness ==
    /\ answer.some
    /\ result.val.tag = "Deny"
    /\ ~answer.val.allowed

\* C6: the Wildcard compiled from the rendered string of a Wildcard accepts
\* exactly the strings the Wildcard accepts.
C6_RenderCompileSameMatches ==
    recompiled.some =>
        /\ recompiled.val.ok
        /\ \A t \in Strings :
              Wildcard_is_match(recompiled.val.val, t)
                 = Wildcard_is_match(compiled.val.val, t)

\* C7: the rendered string of the Wildcard compiled from a pattern is the
\* pattern as written: a star at each wildcard place, every other character
\* unescaped.
C7_RenderRestoresPattern ==
    rendered.some => rendered.val = pattern

SameShape(f, g) ==
    /\ f.tag = g.tag
    /\ Len(f.list) = Len(g.list)

\* C8: a serialized filter list is a sequence of 2-element sequences of
\* strings in the order of the pairs; deserializing it succeeds and gives a
\* list of as many pairs that matches the same ports and channels.
C8_SemanticRoundTrip ==
    reloaded.some =>
        /\ Len(wire.val.list) = Len(result.val.list)
        /\ \A i \in 1..Len(wire.val.list) : Len(wire.val.list[i]) = 2
        /\ reloaded.val.ok
        /\ SameShape(reloaded.val.val, result.val)
        /\ \A p \in Identifiers, c \in Identifiers :
              ChannelFilters_matches(reloaded.val.val.list, p, c)
                 = ChannelFilters_matches(result.val.list, p, c)

BothExact(pr) == pr[1].kind = "Exact" /\ pr[2].kind = "Exact"

ExactPairsOf(list) ==
    LET sel == SelectSeq(list, BothExact)
    IN [i \in 1..Len(sel) |-> <<sel[i][1].v, sel[i][2].v>>]

Malformed(pr) == ~Port_visit_str(pr[1]).ok \/ ~Channel_visit_str(pr[2]).ok

\* C10: a load whose record has an unknown key or any malformed pattern is an
\* error; a load that succeeds keeps every pair of the record, parsed; and
\* is_allowed on a loaded filter returns a boolean.
C10_AllOrNothing ==
    input.some =>
        LET rec == input.val
        IN /\ rec.unknown => ~result.ok
           /\ (\E i \in 1..Len(rec.list) : Malformed(rec.list[i])) => ~result.ok
           /\ (result.ok /\ result.val.tag # "AllowAll") =>
                 /\ Len(result.val.list) = Len(rec.list)
                 /\ \A i \in 1..Len(rec.list) :
                       /\ result.val.list[i][1] = Port_visit_str(rec.list[i][1]).val
                       /\ result.val.list[i][2] = Channel_visit_str(rec.list[i][2]).val
           /\ answer.some => (result.ok /\ answer.val.allowed \in BOOLEAN)

C10_Witness ==
    /\ input.some
    /\ ~result.ok
    /\ ~input.val.unknown
    /\ Len(input.val.list) = 2
    /\ ~Malformed(input.val.list[1])
    /\ Malformed(input.val.list[2])

====
